---- MODULE Spec2Model ----
(***************************************************************************)
(* Bernoulli approximation of a Poisson process on [0,T]: the two scripts  *)
(* simulate_poisson_approx_purepy.py ("purepy") and                        *)
(* simulate_poisson_approx.py ("numpy").                                   *)
(*                                                                         *)
(* Floating point.  Both scripts compute with IEEE-754 binary64 floats     *)
(* (53-bit significand, round to nearest, ties to even) and draw uniforms  *)
(* that are multiples of 2^-53 in [0,1).  The model keeps that arithmetic  *)
(* and scales its width: a float is an integer number of units of          *)
(* 1/Scale, it carries Prec significant bits, every operation rounds its   *)
(* exact result to the nearest such float (ties to even), and a uniform    *)
(* draw is a multiple of 2^-Prec in [0,1).                                 *)
(***************************************************************************)
EXTENDS Integers, Sequences, FiniteSets

\* ------------------------------------------------------------------ bounds
Prec == 3          \* significand bits of the scaled float format (53 in binary64)
MaxN == 3          \* largest number of subintervals n explored

\* ------------------------------------------------------- float arithmetic
RECURSIVE Pow2(_)
Pow2(k) == IF k = 0 THEN 1 ELSE 2 * Pow2(k - 1)

\* units per 1.0; fine enough that no timestamp falls below the grid
Scale == Pow2(2 * Prec + 3)

\* the first magnitude that needs more than Prec bits
Radix == Pow2(Prec)

\* spacing of the floats around the magnitude q (q in units, q >= 0)
RECURSIVE Ulp(_)
Ulp(q) == IF q < Radix THEN 1 ELSE 2 * Ulp(q \div 2)

\* a / b rounded to the nearest integer, ties to even (a >= 0, b > 0)
RoundHalfEven(a, b) ==
    LET f == a \div b
        r == a % b
    IN  IF 2 * r < b THEN f
        ELSE IF 2 * r > b THEN f + 1
        ELSE IF f % 2 = 0 THEN f ELSE f + 1

\* the float nearest to the exact value num/den units (den > 0)
RN(num, den) ==
    LET a == IF num < 0 THEN -num ELSE num
        e == Ulp(a \div den)
        m == e * RoundHalfEven(a, den * e)
    IN  IF num < 0 THEN -m ELSE m

FromInt(k) == RN(k * Scale, 1)
FAdd(a, b) == RN(a + b, 1)
FSub(a, b) == RN(a - b, 1)
FMul(a, b) == RN(a * b, Scale)
FDiv(a, b) == RN(a * Scale, b)

\* ---------------------------------------------------------- random stream
\* every value random.random() / np.random.rand() can return
UniformGrid == {k * (Scale \div Radix) : k \in 0 .. Radix - 1}

\* the draws explored: the smallest, the middle and the largest grid value
Draws == {u \in UniformGrid : u \in {0, Scale \div 2, Scale - Scale \div Radix}}

\* ------------------------------------------------------------- parameters
TValues == {FromInt(1), FromInt(3)}
LamValues == {0, FromInt(1)}
TrialsValues == {1, 2}

\* p = lam * T / n
SuccessProb(lam, T, n) == FDiv(FMul(lam, T), FromInt(n))

\* --------------------------------------------------------------- helpers
RECURSIVE SumSeq(_)
SumSeq(s) == IF s = <<>> THEN 0 ELSE s[1] + SumSeq(Tail(s))

\* sum() over the first k floats of s: left to right, every partial sum rounded
RECURSIVE FSumTo(_, _)
FSumTo(s, k) == IF k = 0 THEN 0 ELSE FAdd(FSumTo(s, k - 1), s[k])

FSum(s) == FSumTo(s, Len(s))

\* x**2
Square(x) == FMul(x, x)

\* the population variance of the floats xs around mean: sum of squares / len
PopulationVar(xs, mean) ==
    FDiv(FSum([k \in 1 .. Len(xs) |-> Square(FSub(xs[k], mean))]), FromInt(Len(xs)))

RECURSIVE Insert(_, _)
Insert(x, s) ==
    IF s = <<>> THEN <<x>>
    ELSE IF x < s[1] THEN <<x>> \o s
    ELSE <<s[1]>> \o Insert(x, Tail(s))

\* times.sort(): ascending
RECURSIVE Sort(_)
Sort(s) == IF s = <<>> THEN <<>> ELSE Insert(s[Len(s)], Sort(SubSeq(s, 1, Len(s) - 1)))

\* the outcome of one Bernoulli trial: r() < p
Hit(u, p) == u < p

\* ------------------------------------------------- realization, pure Python
\* one step of "for i in range(n): if r() < p: indices.append(i)"
PyAppendHit(indices, i, hit) == IF hit THEN Append(indices, i) ELSE indices

\* the whole loop, given the outcomes of its n tests (hits[k] is subinterval k - 1)
RECURSIVE PyIndices(_)
PyIndices(hits) ==
    IF hits = <<>> THEN <<>>
    ELSE PyAppendHit(PyIndices(SubSeq(hits, 1, Len(hits) - 1)), Len(hits) - 1,
                     hits[Len(hits)])

\* (i + random.random()) * (T/n)
PyTimestamp(i, u, T, n) == FMul(FAdd(FromInt(i), u), FDiv(T, FromInt(n)))

\* [ (i + random.random()) * (T/n) for i in indices ]
PyRawTimes(indices, js, T, n) ==
    [k \in 1 .. Len(indices) |-> PyTimestamp(indices[k], js[k], T, n)]

\* mutant of PyInterarrivals: the gap from time 0 to the first event is left out
PyInterarrivals_DropFirst(times) ==
    [k \in 1 .. Len(times) - 1 |-> FSub(times[k + 1], times[k])]

\* [times[0]] + [times[i] - times[i-1] for i in range(1, len(times))]
PyInterarrivals(times) ==
    <<times[1]>> \o [k \in 1 .. Len(times) - 1 |-> FSub(times[k + 1], times[k])]

\* ------------------------------------------------------ realization, numpy
\* np.random.rand(n) < p
NpBernoulli(us, p) == [k \in 1 .. Len(us) |-> Hit(us[k], p)]

\* np.nonzero(bernoulli)[0]: the 0-based positions of the True entries, ascending
RECURSIVE NpNonzero(_)
NpNonzero(b) ==
    IF b = <<>> THEN <<>>
    ELSE LET front == NpNonzero(SubSeq(b, 1, Len(b) - 1))
         IN  IF b[Len(b)] THEN Append(front, Len(b) - 1) ELSE front

\* (indices + np.random.rand(len(indices))) * (T / n)
NpRawTimes(indices, js, T, n) ==
    LET width == FDiv(T, FromInt(n))
    IN  [k \in 1 .. Len(indices) |-> FMul(FAdd(FromInt(indices[k]), js[k]), width)]

\* mutant of NpDiff: the operands of the subtraction are swapped
NpDiff_Swapped(a) == [k \in 1 .. Len(a) - 1 |-> FSub(a[k], a[k + 1])]

\* np.diff(a)
NpDiff(a) == [k \in 1 .. Len(a) - 1 |-> FSub(a[k + 1], a[k])]

\* mutant of NpInterarrivals: np.diff(times), without the leading 0.0
NpInterarrivals_NoZero(times) == NpDiff(times)

\* np.diff(np.concatenate(([0.0], times)))
NpInterarrivals(times) == NpDiff(<<0>> \o times)

\* ------------------------------------------------------------- statistics
\* optional float values: the result of a statistic
Float(x) == [tag |-> "float", val |-> x]
None == [tag |-> "None", val |-> 0]
NaN == [tag |-> "nan", val |-> 0]
ZeroDivisionError == [tag |-> "ZeroDivisionError", val |-> 0]

\* a name that is not bound yet
Unset == [tag |-> "unset", val |-> 0]

\* sum(counts) / len(counts): an exact integer sum, one rounded division
PyMeanCount(counts) ==
    IF Len(counts) = 0 THEN ZeroDivisionError
    ELSE Float(FDiv(FromInt(SumSeq(counts)), FromInt(Len(counts))))

\* sum((x-mean_count)**2 for x in counts) / len(counts)
PyVarCount(counts, mean) ==
    IF Len(counts) = 0 THEN ZeroDivisionError
    ELSE Float(PopulationVar([k \in 1 .. Len(counts) |-> FromInt(counts[k])], mean))

\* sum(interarrivals) / len(interarrivals)
PyMean(xs) ==
    IF Len(xs) = 0 THEN ZeroDivisionError
    ELSE Float(FDiv(FSum(xs), FromInt(Len(xs))))

\* sum((x-mean_ia)**2 for x in interarrivals) / len(interarrivals)
PyVar(xs, mean) ==
    IF Len(xs) = 0 THEN ZeroDivisionError
    ELSE Float(PopulationVar(xs, mean))

\* mutant of PyHasInterarrivals: the statistics are computed unconditionally
PyHasInterarrivals_Always(interarrivals) == TRUE

\* "if interarrivals:" -- a non-empty list is true
PyHasInterarrivals(interarrivals) == interarrivals # <<>>

\* counts.mean(), interarrivals.mean(): nan (with a warning) on an empty array
NpMean(xs) ==
    IF Len(xs) = 0 THEN NaN ELSE Float(FDiv(FSum(xs), FromInt(Len(xs))))

\* .var(ddof=0): population variance
NpVar(xs) ==
    IF Len(xs) = 0 THEN NaN
    ELSE Float(PopulationVar(xs, FDiv(FSum(xs), FromInt(Len(xs)))))

\* "if interarrivals.size > 0:"
NpHasInterarrivals(interarrivals) == Len(interarrivals) > 0

\* lines 48-57: the four statistics, and whether a division raised
PyStatistics(counts, interarrivals) ==
    LET mc == PyMeanCount(counts)
        vc == IF mc.tag = "float" THEN PyVarCount(counts, mc.val) ELSE Unset
        has == PyHasInterarrivals(interarrivals)
        mi == IF mc.tag # "float" THEN Unset
              ELSE IF has THEN PyMean(interarrivals) ELSE None
        vi == IF mi.tag = "float" THEN PyVar(interarrivals, mi.val)
              ELSE IF mi.tag = "None" THEN None ELSE Unset
    IN  [mean_count |-> mc, var_count |-> vc, mean_ia |-> mi, var_ia |-> vi,
         raised |-> (mc.tag = "ZeroDivisionError" \/ mi.tag = "ZeroDivisionError")]

\* lines 39-52: the four statistics
NpStatistics(counts, interarrivals) ==
    LET fc == [k \in 1 .. Len(counts) |-> FromInt(counts[k])]
        has == NpHasInterarrivals(interarrivals)
    IN  [mean_count |-> NpMean(fc), var_count |-> NpVar(fc),
         mean_ia |-> IF has THEN NpMean(interarrivals) ELSE None,
         var_ia |-> IF has THEN NpVar(interarrivals) ELSE None]

\* the keys and values of the dict "out" (the same ten in both scripts)
SummaryRecord(T, lam, n, p, trials, mean_count, var_count, event_count) ==
    [T |-> T, lambda |-> lam, n |-> n, p |-> p, trials |-> trials,
     counts_mean |-> mean_count, counts_var |-> var_count,
     theor_mean |-> FMul(lam, T), theor_var |-> FMul(lam, T),
     realization_event_count |-> event_count]

\* np.random.binomial(n, p): the outcomes Binomial(n, p) can produce
BinomialOutcomes(n, p) ==
    IF p = 0 THEN {0} ELSE IF p = Scale THEN {n} ELSE 0 .. n

\* np.random.binomial raises ValueError for p outside [0, 1]
BinomialRejects(p) == p < 0 \/ p > Scale

\* one entry of the record of what was drawn from the random stream
Drawn(stage, at) == [stage |-> stage, at |-> at]

\* ------------------------------------------------------------------ state
VARIABLES
    impl,           \* which script runs: "purepy" or "numpy"
    T, lam, n, p, trials,
    pc,             \* position in the script
    c, j,           \* purepy: successes and draws so far in the current trial
    counts,
    bernoulli,      \* the outcomes r() < p of the realization's Bernoulli trials so far
    indices,
    jit,            \* the jitter uniforms drawn, one per hit
    times, interarrivals,
    mean_count, var_count, mean_ia, var_ia,
    out,
    stream          \* every draw taken from the random stream, in order

vars == <<impl, T, lam, n, p, trials, pc, c, j, counts, bernoulli, indices, jit,
          times, interarrivals, mean_count, var_count, mean_ia, var_ia, out, stream>>

params == <<impl, T, lam, n, p, trials>>
countVars == <<c, j, counts>>
realVars == <<bernoulli, indices, jit, times, interarrivals>>
statVars == <<mean_count, var_count, mean_ia, var_ia>>

Init ==
    /\ impl \in {"purepy", "numpy"}
    /\ T \in TValues
    /\ lam \in LamValues
    /\ n \in 1 .. MaxN
    /\ trials \in TrialsValues
    /\ p = SuccessProb(lam, T, n)
    /\ pc = "start"
    /\ c = 0 /\ j = 0 /\ counts = <<>>
    /\ bernoulli = <<>> /\ indices = <<>> /\ jit = <<>>
    /\ times = <<>> /\ interarrivals = <<>>
    /\ mean_count = Unset /\ var_count = Unset
    /\ mean_ia = Unset /\ var_ia = Unset
    /\ out = <<>>
    /\ stream = <<>>

\* random.seed(seed) / np.random.seed(seed)
Seed ==
    /\ pc = "start"
    /\ pc' = "counts"
    /\ UNCHANGED <<params, countVars, realVars, statVars, out, stream>>

\* ---------------------------------------------------------- purepy script
\* one pass of the inner loop: "if r() < threshold: c += 1"
PyCountDraw ==
    /\ impl = "purepy" /\ pc = "counts"
    /\ Len(counts) < trials /\ j < n
    /\ \E u \in Draws :
          c' = IF Hit(u, p) THEN c + 1 ELSE c
    /\ j' = j + 1
    /\ stream' = Append(stream, Drawn("count", Len(counts)))
    /\ UNCHANGED <<params, pc, counts, realVars, statVars, out>>

\* the inner loop is over: counts.append(c); a next trial, if any, starts with c = 0
PyCountAppend ==
    /\ impl = "purepy" /\ pc = "counts"
    /\ Len(counts) < trials /\ j = n
    /\ counts' = Append(counts, c)
    /\ c' = IF Len(counts) + 1 = trials THEN c ELSE 0
    /\ j' = IF Len(counts) + 1 = trials THEN j ELSE 0
    /\ pc' = IF Len(counts) + 1 = trials THEN "bernoulli" ELSE "counts"
    /\ UNCHANGED <<params, realVars, statVars, out, stream>>

\* mutant of PyBernoulliDraw: the jitter of a hit is drawn inside the loop,
\* right after the hit's own Bernoulli draw
PyBernoulliDraw_JitterInLoop ==
    /\ impl = "purepy" /\ pc = "bernoulli"
    /\ Len(bernoulli) < n
    /\ \E u \in Draws, v \in Draws :
          /\ bernoulli' = Append(bernoulli, Hit(u, p))
          /\ indices' = PyAppendHit(indices, Len(bernoulli), Hit(u, p))
          /\ jit' = IF Hit(u, p) THEN Append(jit, v) ELSE jit
          /\ times' = IF Hit(u, p)
                      THEN Append(times, PyTimestamp(Len(bernoulli), v, T, n))
                      ELSE times
          /\ stream' = IF Hit(u, p)
                       THEN stream \o <<Drawn("bernoulli", Len(bernoulli)),
                                        Drawn("jitter", Len(bernoulli))>>
                       ELSE Append(stream, Drawn("bernoulli", Len(bernoulli)))
    /\ pc' = IF Len(bernoulli) + 1 = n THEN "realize" ELSE "bernoulli"
    /\ UNCHANGED <<params, countVars, interarrivals, statVars, out>>

\* one pass of "for i in range(n): if r() < p: indices.append(i)"
PyBernoulliDraw ==
    /\ impl = "purepy" /\ pc = "bernoulli"
    /\ Len(bernoulli) < n
    /\ \E u \in Draws :
          /\ bernoulli' = Append(bernoulli, Hit(u, p))
          /\ indices' = PyAppendHit(indices, Len(bernoulli), Hit(u, p))
    /\ stream' = Append(stream, Drawn("bernoulli", Len(bernoulli)))
    /\ pc' = IF Len(bernoulli) + 1 = n THEN "realize" ELSE "bernoulli"
    /\ UNCHANGED <<params, countVars, jit, times, interarrivals, statVars, out>>

\* "if indices:", one element of the list comprehension: one jitter draw
PyJitterDraw ==
    /\ impl = "purepy" /\ pc = "realize"
    /\ indices # <<>> /\ Len(jit) < Len(indices)
    /\ \E u \in Draws :
          /\ jit' = Append(jit, u)
          /\ times' = Append(times, PyTimestamp(indices[Len(jit) + 1], u, T, n))
    /\ stream' = Append(stream, Drawn("jitter", indices[Len(jit) + 1]))
    /\ UNCHANGED <<params, pc, countVars, bernoulli, indices, interarrivals, statVars, out>>

\* times.sort(); interarrivals = [times[0]] + [...]
PySortAndDiff ==
    /\ impl = "purepy" /\ pc = "realize"
    /\ indices # <<>> /\ Len(jit) = Len(indices)
    /\ times' = Sort(times)
    /\ interarrivals' = PyInterarrivals(times')
    /\ pc' = "stats"
    /\ UNCHANGED <<params, countVars, bernoulli, indices, jit, statVars, out, stream>>

\* else: times = []; interarrivals = []
PyNoEventsGuard == impl = "purepy" /\ pc = "realize" /\ indices = <<>>

PyNoEvents ==
    /\ PyNoEventsGuard
    /\ times' = <<>> /\ interarrivals' = <<>>
    /\ pc' = "stats"
    /\ UNCHANGED <<params, countVars, bernoulli, indices, jit, statVars, out, stream>>

\* mean_count, var_count, mean_ia, var_ia; a ZeroDivisionError ends the run
PyStatsGuard == impl = "purepy" /\ pc = "stats"

PyStats ==
    /\ PyStatsGuard
    /\ mean_count' = PyStatistics(counts, interarrivals).mean_count
    /\ var_count' = PyStatistics(counts, interarrivals).var_count
    /\ mean_ia' = PyStatistics(counts, interarrivals).mean_ia
    /\ var_ia' = PyStatistics(counts, interarrivals).var_ia
    /\ pc' = IF PyStatistics(counts, interarrivals).raised THEN "failed" ELSE "report"
    /\ UNCHANGED <<params, countVars, realVars, out, stream>>

\* the prints, then out = {...} and json.dump
PyOutGuard == impl = "purepy" /\ pc = "report"

PyOut ==
    /\ PyOutGuard
    /\ out' = SummaryRecord(T, lam, n, p, trials, mean_count, var_count, Len(times))
    /\ pc' = "done"
    /\ UNCHANGED <<params, countVars, realVars, statVars, stream>>

\* ----------------------------------------------------------- numpy script
\* counts = np.random.binomial(n, p, size=trials): one Binomial draw per trial
NpBinomial ==
    /\ impl = "numpy" /\ pc = "counts"
    /\ IF BinomialRejects(p)
       THEN /\ pc' = "failed"
            /\ UNCHANGED <<counts, stream>>
       ELSE /\ \E cs \in [1 .. trials -> BinomialOutcomes(n, p)] : counts' = cs
            /\ stream' = stream \o [k \in 1 .. trials |-> Drawn("count", k - 1)]
            /\ pc' = "bernoulli"
    /\ UNCHANGED <<params, c, j, realVars, statVars, out>>

\* bernoulli = np.random.rand(n) < p; indices = np.nonzero(bernoulli)[0]
NpBernoulliDraw ==
    /\ impl = "numpy" /\ pc = "bernoulli"
    /\ \E us \in [1 .. n -> Draws] :
          /\ bernoulli' = NpBernoulli(us, p)
          /\ indices' = NpNonzero(bernoulli')
    /\ stream' = stream \o [k \in 1 .. n |-> Drawn("bernoulli", k - 1)]
    /\ pc' = "realize"
    /\ UNCHANGED <<params, countVars, jit, times, interarrivals, statVars, out>>

\* "if len(indices) > 0:" times = (indices + rand(len(indices))) * (T / n);
\* times.sort(); interarrivals = np.diff(np.concatenate(([0.0], times)))
NpTimes ==
    /\ impl = "numpy" /\ pc = "realize"
    /\ Len(indices) > 0
    /\ \E js \in [1 .. Len(indices) -> Draws] :
          /\ jit' = js
          /\ times' = Sort(NpRawTimes(indices, js, T, n))
    /\ interarrivals' = NpInterarrivals(times')
    /\ stream' = stream \o [k \in 1 .. Len(indices) |-> Drawn("jitter", indices[k])]
    /\ pc' = "stats"
    /\ UNCHANGED <<params, countVars, bernoulli, indices, statVars, out>>

\* else: times = np.array([]); interarrivals = np.array([])
NpNoEventsGuard == impl = "numpy" /\ pc = "realize" /\ Len(indices) = 0

NpNoEvents ==
    /\ NpNoEventsGuard
    /\ times' = <<>> /\ interarrivals' = <<>>
    /\ pc' = "stats"
    /\ UNCHANGED <<params, countVars, bernoulli, indices, jit, statVars, out, stream>>

\* counts.mean(), counts.var(ddof=0), interarrivals.mean(), interarrivals.var(ddof=0)
NpStatsGuard == impl = "numpy" /\ pc = "stats"

NpStats ==
    /\ NpStatsGuard
    /\ mean_count' = NpStatistics(counts, interarrivals).mean_count
    /\ var_count' = NpStatistics(counts, interarrivals).var_count
    /\ mean_ia' = NpStatistics(counts, interarrivals).mean_ia
    /\ var_ia' = NpStatistics(counts, interarrivals).var_ia
    /\ pc' = "report"
    /\ UNCHANGED <<params, countVars, realVars, out, stream>>

\* the prints, then out = {...} and json.dump
NpOutGuard == impl = "numpy" /\ pc = "report"

NpOut ==
    /\ NpOutGuard
    /\ out' = SummaryRecord(T, lam, n, p, trials, mean_count, var_count, Len(times))
    /\ pc' = "done"
    /\ UNCHANGED <<params, countVars, realVars, statVars, stream>>

Next ==
    \/ Seed
    \/ PyCountDraw \/ PyCountAppend \/ PyBernoulliDraw \/ PyJitterDraw
    \/ PySortAndDiff \/ PyNoEvents \/ PyStats \/ PyOut
    \/ NpBinomial \/ NpBernoulliDraw \/ NpTimes \/ NpNoEvents \/ NpStats \/ NpOut

Spec == Init /\ [][Next]_vars

\* ------------------------------------------------------------- properties
\* the Realization Builder and the Interarrival Extractor have run
RealizationBuilt == pc \in {"stats", "report", "done"}

Abs(x) == IF x < 0 THEN -x ELSE x

\* the timestamps in hit-index order, before times.sort()
UnsortedTimes ==
    IF impl = "purepy" THEN PyRawTimes(indices, jit, T, n)
    ELSE NpRawTimes(indices, jit, T, n)

StrictlyIncreasing(s) == \A k \in 1 .. Len(s) - 1 : s[k] < s[k + 1]

\* C1: the Realization has at most n timestamps, every timestamp lies in
\* [0, T], and the timestamps are strictly increasing (no two are equal).
C1_RealizationStrictlyIncreasing ==
    RealizationBuilt =>
        /\ Len(times) <= n
        /\ \A k \in 1 .. Len(times) : 0 <= times[k] /\ times[k] <= T
        /\ StrictlyIncreasing(times)

\* C2: the InterarrivalSequence has the length of the Realization and is
\* empty exactly when the Realization is empty.
C2_SameLength ==
    RealizationBuilt =>
        /\ Len(interarrivals) = Len(times)
        /\ (interarrivals = <<>>) <=> (times = <<>>)

C2_Witness == pc = "done" /\ Len(times) >= 2 /\ Len(interarrivals) = Len(times)

\* C3 as stated: for a non-empty Realization the gaps sum to the last timestamp
\* exactly, and every gap is non-negative.
C3_SumIsLastExactly ==
    (RealizationBuilt /\ times # <<>>) =>
        /\ SumSeq(interarrivals) = times[Len(times)]
        /\ \A k \in 1 .. Len(interarrivals) : interarrivals[k] >= 0

\* C3 amended: for a non-empty Realization every gap is non-negative and the
\* gaps sum to the last timestamp up to the rounding of the subtractions:
\* the two differ by at most 2^-Prec times the last timestamp.
C3_SumIsLastUpToRounding ==
    (RealizationBuilt /\ times # <<>>) =>
        /\ Radix * Abs(SumSeq(interarrivals) - times[Len(times)])
              <= times[Len(times)]
        /\ \A k \in 1 .. Len(interarrivals) : interarrivals[k] >= 0

C3_Witness ==
    /\ pc = "done" /\ Len(times) >= 2
    /\ SumSeq(interarrivals) # times[Len(times)]

\* the timestamp t lies in the subinterval [i*T/n, (i+1)*T/n)
InSubinterval(t, i) == i * T <= t * n /\ t * n < (i + 1) * T

\* C4: if p = 0 every count is 0 and the Realization is empty; if p = 1 the
\* Realization has exactly n events, exactly one in each subinterval
\* [i*T/n, (i+1)*T/n), i = 0 .. n-1.
C4_Boundary ==
    /\ p = 0 =>
          /\ \A k \in 1 .. Len(counts) : counts[k] = 0
          /\ times = <<>>
    /\ (p = Scale /\ RealizationBuilt) =>
          /\ Len(times) = n
          /\ \A i \in 0 .. n - 1 :
                Cardinality({k \in 1 .. Len(times) : InSubinterval(times[k], i)}) = 1

\* C9: the timestamps in ascending hit-index order are already strictly
\* ascending, so times.sort() leaves the sequence unchanged.
C9_SortNotLoadBearing ==
    RealizationBuilt =>
        /\ StrictlyIncreasing(UnsortedTimes)
        /\ times = UnsortedTimes

\* the subintervals (or trials) of the draws of one stage, in the order drawn
DrawsOf(stage) ==
    LET sel == SelectSeq(stream, LAMBDA d : d.stage = stage)
    IN  [k \in 1 .. Len(sel) |-> sel[k].at]

StageRank(d) == IF d.stage = "count" THEN 0 ELSE IF d.stage = "bernoulli" THEN 1 ELSE 2

\* the Count Sampler's draws of a whole run: n per trial (purepy), one per trial (numpy)
CountDrawsOfRun ==
    IF impl = "purepy" THEN [k \in 1 .. trials * n |-> (k - 1) \div n]
    ELSE [k \in 1 .. trials |-> k - 1]

\* C5: the stream is consumed in a fixed order: all Count Sampler draws, then
\* the n Bernoulli draws of the Realization Builder, then one jitter draw per
\* hit in ascending hit-index order; the pure-Python run consumes
\* trials*n + n + (number of hits) draws in total.
C5_DrawOrder ==
    LET count == DrawsOf("count")
        bern == DrawsOf("bernoulli")
        jitter == DrawsOf("jitter")
    IN  /\ \A a \in 1 .. Len(stream) - 1 :
              StageRank(stream[a]) <= StageRank(stream[a + 1])
        /\ bern # <<>> => count = CountDrawsOfRun
        /\ jitter # <<>> => bern = [k \in 1 .. n |-> k - 1]
        /\ jitter = SubSeq(indices, 1, Len(jitter))
        /\ Len(jitter) <= n
        /\ RealizationBuilt =>
              /\ count = CountDrawsOfRun
              /\ bern = [k \in 1 .. n |-> k - 1]
              /\ jitter = indices
              /\ impl = "purepy" => Len(stream) = trials * n + n + Len(indices)

C5_Witness ==
    /\ pc = "done" /\ impl = "purepy"
    /\ Len(counts) = 2 /\ Len(indices) >= 2 /\ Len(indices) < n
    /\ Len(stream) = trials * n + n + Len(indices)

\* C6: the SummaryRecord handed to the Reporter contains interarrival_mean,
\* interarrival_variance and theoretical_interarrival_mean.
C6_RecordHasInterarrivalFields ==
    pc = "done" =>
        {"interarrival_mean", "interarrival_variance",
         "theoretical_interarrival_mean"} \subseteq DOMAIN out

\* the Realization Builder ran and no subinterval was a hit
NoHits == Len(bernoulli) = n /\ indices = <<>>

\* C7: when no subinterval is a hit the run does not fail and goes on to the
\* SummaryRecord: Realization and InterarrivalSequence are empty, the
\* interarrival mean and variance are None, realization_event_count is 0;
\* and the interarrival statistics are None only when the Realization is empty.
\* a step of the script is possible: the guard of one of the actions that follow
\* the Bernoulli draws holds (the rest of each of these actions is an assignment)
CanContinue ==
    \/ PyNoEventsGuard \/ PyStatsGuard \/ PyOutGuard
    \/ NpNoEventsGuard \/ NpStatsGuard \/ NpOutGuard

C7_NoEventsHandled ==
    /\ NoHits => pc # "failed" /\ (pc = "done" \/ CanContinue)
    /\ (NoHits /\ RealizationBuilt) => times = <<>> /\ interarrivals = <<>>
    /\ (NoHits /\ pc \in {"report", "done"}) => mean_ia = None /\ var_ia = None
    /\ (NoHits /\ pc = "done") => out.realization_event_count = 0
    /\ (pc \in {"report", "done"} /\ (mean_ia = None \/ var_ia = None)) => times = <<>>

C7_Witness ==
    /\ pc = "done" /\ NoHits /\ p > 0
    /\ mean_ia = None /\ var_ia = None /\ out.realization_event_count = 0

\* C8: a configuration whose p violates 0 < p <= 1 is rejected up front: no
\* random draw is made, no CountSample or Realization is built and no
\* SummaryRecord is produced.
C8_InvalidConfigurationRejected ==
    ~(0 < p /\ p <= Scale) =>
        /\ stream = <<>>
        /\ counts = <<>> /\ bernoulli = <<>> /\ times = <<>>
        /\ out = <<>>

\* C10: on the same Bernoulli outcomes and the same jitter values the two
\* scripts' realization pipelines give the same hit indices, the same
\* Realization, the same InterarrivalSequence and the same event count.
C10_PipelinesAgree ==
    RealizationBuilt =>
        IF impl = "purepy"
        THEN LET np_indices == NpNonzero(bernoulli)
                 np_times == IF Len(np_indices) > 0
                             THEN Sort(NpRawTimes(np_indices, jit, T, n)) ELSE <<>>
                 np_interarrivals == IF Len(np_indices) > 0
                                     THEN NpInterarrivals(np_times) ELSE <<>>
             IN  /\ indices = np_indices
                 /\ times = np_times
                 /\ interarrivals = np_interarrivals
                 /\ pc = "done" => out.realization_event_count = Len(np_times)
        ELSE LET py_indices == PyIndices(bernoulli)
                 py_times == IF py_indices # <<>>
                             THEN Sort(PyRawTimes(py_indices, jit, T, n)) ELSE <<>>
                 py_interarrivals == IF py_indices # <<>>
                                     THEN PyInterarrivals(py_times) ELSE <<>>
             IN  /\ indices = py_indices
                 /\ times = py_times
                 /\ interarrivals = py_interarrivals
                 /\ pc = "done" => out.realization_event_count = Len(py_times)

C10_Witness ==
    /\ pc = "done" /\ impl = "numpy" /\ Len(indices) >= 2
    /\ interarrivals = PyInterarrivals(times)
    /\ interarrivals[1] > 0

====
